---- MODULE Spec2Model ----
(***************************************************************************)
(* A model of statutils.qvalue (src/statutils/qvalue.py): one call of      *)
(* qvalue(pvalues, tuning, pi0method, robust, smoothdf, smoothlog) as a    *)
(* state machine whose program counter walks the statements of the         *)
(* function: parameter checking, the pi0 estimate, the q-value pass.       *)
(*                                                                         *)
(* Floating-point numbers are modelled as exact rationals n/d in lowest   *)
(* terms, extended with NaN (0/0) and the infinities (+-1/0); rounding is *)
(* not modelled.                                                           *)
(***************************************************************************)
EXTENDS Integers, Sequences, FiniteSets, Bags, TLC

VARIABLES pvalues, tuningArg, pi0method, robust, smoothdf, smoothlog,
          pc, msg, tuning, pi0arr, pboot, mse, pi0, ranks, qvalues,
          ordering, i

vars == <<pvalues, tuningArg, pi0method, robust, smoothdf, smoothlog,
          pc, msg, tuning, pi0arr, pboot, mse, pi0, ranks, qvalues,
          ordering, i>>

inputs == <<pvalues, tuningArg, pi0method, robust, smoothdf, smoothlog>>

(***************************************************************************)
(* Bounds of the model.                                                    *)
(***************************************************************************)
\* longest p-value sequence of the main specification
MaxN == 3
\* longest p-value sequence on which the main specification runs the bootstrap
MaxNB == 1
\* longest p-value sequence of the specification of the bootstrap
MaxNBoot == 2
\* longest p-value sequence of the specification with invalid inputs
MaxNAny == 2
\* number of bootstrap resamples drawn (the code draws 100, line 85)
NBoot == 2

(***************************************************************************)
(* Floats.                                                                 *)
(***************************************************************************)
Abs(x) == IF x < 0 THEN -x ELSE x

RECURSIVE GCD(_, _)
GCD(a, b) == IF b = 0 THEN a ELSE GCD(b, a % b)

NaN == [n |-> 0, d |-> 0]

\* the float n/d, d # 0, in lowest terms with a positive denominator
Rat(n, d) ==
    LET s == IF d < 0 THEN -1 ELSE 1
        g == GCD(Abs(n), Abs(d))
    IN  [n |-> (s * n) \div g, d |-> (s * d) \div g]

Zero == Rat(0, 1)
One == Rat(1, 1)

IsNaN(x) == x.n = 0 /\ x.d = 0
IsFinite(x) == x.d # 0

\* n1/d1 < n2/d2 for positive denominators, by integer parts and then the
\* reciprocals of the remainders (no product is formed)
RECURSIVE RatLess(_, _, _, _)
RatLess(n1, d1, n2, d2) ==
    LET q1 == n1 \div d1
        q2 == n2 \div d2
        r1 == n1 % d1
        r2 == n2 % d2
    IN  IF q1 # q2 THEN q1 < q2
        ELSE IF r2 = 0 THEN FALSE
        ELSE IF r1 = 0 THEN TRUE
        ELSE RatLess(d2, r2, d1, r1)

\* IEEE comparisons: every comparison with NaN is false
FLt(a, b) ==
    /\ ~IsNaN(a)
    /\ ~IsNaN(b)
    /\ IF IsFinite(a) /\ IsFinite(b) THEN RatLess(a.n, a.d, b.n, b.d)
       ELSE a.n * b.d < b.n * a.d
FLe(a, b) == ~IsNaN(a) /\ ~IsNaN(b) /\ ~FLt(b, a)
FGe(a, b) == FLe(b, a)
FGt(a, b) == FLt(b, a)

\* IEEE arithmetic on finite operands; a non-finite operand gives NaN here
\* (the code never computes with an infinity: its only zero divisor, line 99,
\* comes with a zero dividend)
FAdd(a, b) ==
    IF ~IsFinite(a) \/ ~IsFinite(b) THEN NaN
    ELSE LET g == GCD(a.d, b.d)
         IN  Rat(a.n * (b.d \div g) + b.n * (a.d \div g), (a.d \div g) * b.d)
FSub(a, b) ==
    IF ~IsFinite(a) \/ ~IsFinite(b) THEN NaN
    ELSE LET g == GCD(a.d, b.d)
         IN  Rat(a.n * (b.d \div g) - b.n * (a.d \div g), (a.d \div g) * b.d)
FMul(a, b) ==
    IF ~IsFinite(a) \/ ~IsFinite(b) THEN NaN
    ELSE Rat(a.n * b.n, a.d * b.d)
\* numpy float division: 0/0 is NaN, x/0 is +-inf, with a warning only
FDiv(a, b) ==
    IF ~IsFinite(a) \/ ~IsFinite(b) THEN NaN
    ELSE IF b.n = 0
         THEN (IF a.n = 0 THEN NaN
               ELSE [n |-> IF a.n < 0 THEN -1 ELSE 1, d |-> 0])
         ELSE Rat(a.n * b.d, a.d * b.n)

RECURSIVE FPow(_, _)
FPow(a, k) == IF k = 0 THEN One ELSE FMul(a, FPow(a, k - 1))

\* Python's builtin min(a, b): the first argument unless the second is smaller
PyMin(a, b) == IF FLt(b, a) THEN b ELSE a

Range(s) == {s[k] : k \in DOMAIN s}

\* numpy's min and max of a non-empty array: NaN if any element is NaN
NpMin(s) ==
    IF \E k \in DOMAIN s : IsNaN(s[k]) THEN NaN
    ELSE CHOOSE x \in Range(s) : \A y \in Range(s) : FLe(x, y)
NpMax(s) ==
    IF \E k \in DOMAIN s : IsNaN(s[k]) THEN NaN
    ELSE CHOOSE x \in Range(s) : \A y \in Range(s) : FLe(y, x)

\* numpy's argmin of a NaN-free array: the first index of the minimum
NpArgMin(s) ==
    CHOOSE k \in DOMAIN s :
        /\ \A j \in DOMAIN s : FLe(s[k], s[j])
        /\ \A j \in DOMAIN s : j < k => FLt(s[k], s[j])

RECURSIVE SumInts(_, _)
SumInts(f, S) ==
    IF S = {} THEN 0
    ELSE LET x == CHOOSE y \in S : TRUE IN f[x] + SumInts(f, S \ {x})

(***************************************************************************)
(* The arguments of a call.                                                *)
(***************************************************************************)
SeqsOf(S, lo, hi) == UNION {[1..k -> S] : k \in lo..hi}

\* tuning=None, a float, or an array given by its rows (a 1-D array is one row)
NoTuning == [kind |-> "none", rows |-> <<>>]
ScalarTuning(v) == [kind |-> "scalar", rows |-> <<<<v>>>>]
ArrayTuning(rows) == [kind |-> "array", rows |-> rows]

\* tuning.reshape(tuning.size), line 62: the rows one after the other
RECURSIVE Flatten(_)
Flatten(rows) ==
    IF rows = <<>> THEN <<>> ELSE Head(rows) \o Flatten(Tail(rows))

\* np.linspace(0, 0.9, 19), line 59: 0, 0.05, ..., 0.9
LinspaceNum == 19
DefaultTuning ==
    [k \in 1..LinspaceNum |-> Rat(9 * (k - 1), 10 * (LinspaceNum - 1))]

\* the smallest accepted size of a tuning array of more than one value, line 63
MinMulti == 4

Pi0Methods == {"smoother", "bootstrap"}

MsgPValues == "p-values must fall in interval [0,1] and not be NaN"
MsgCount == "Number of tuning parameters must be either 1 or more than 4"
MsgTuning1 == "Tuning parameter must be within [0,1)."
MsgTunings == "Tuning parameters must be within [0,1)."
MsgMethod == "pi0method must be one of \"smoother\" or \"bootstrap\""
MsgPi0 == "Estimated pi0 <= 0. Check that you have valid p-values or use another pi0method"
NoError == ""

(***************************************************************************)
(* Parameter checking, lines 55-72.                                        *)
(***************************************************************************)
\* line 56
BadPValues(p) ==
    \/ FLt(NpMin(p), Zero)
    \/ FGt(NpMax(p), One)
    \/ \E k \in DOMAIN p : IsNaN(p[k])

\* lines 58-62
Normalise(arg) ==
    IF arg.kind = "none" THEN DefaultTuning ELSE Flatten(arg.rows)

\* BadCount as the message words it: "either 1 or more than 4"
BadCountMoreThan4(t) == Len(t) < 1 \/ (Len(t) > 1 /\ Len(t) <= MinMulti)

\* line 63
BadCount(t) == Len(t) < 1 \/ (Len(t) > 1 /\ Len(t) < MinMulti)

\* line 66
BadTuning(t) == \E k \in DOMAIN t : FLt(t[k], Zero) \/ FGe(t[k], One)

\* BadMethod checked only where the method is used
BadMethodWhenUsed(t, m) == Len(t) > 1 /\ m \notin Pi0Methods

\* line 71
BadMethod(t, m) == m \notin Pi0Methods

\* the message of the ValueError the checks raise, NoError if none does
ValidationError(p, arg, m) ==
    IF BadPValues(p) THEN MsgPValues
    ELSE LET t == Normalise(arg)
         IN  IF BadCount(t) THEN MsgCount
             ELSE IF BadTuning(t)
                  THEN (IF Len(t) = 1 THEN MsgTuning1 ELSE MsgTunings)
                  ELSE IF BadMethod(t, m) THEN MsgMethod
                  ELSE NoError

Validate ==
    /\ pc = "start"
    /\ LET err == ValidationError(pvalues, tuningArg, pi0method)
       IN  /\ msg' = err
           /\ pc' = IF err = NoError THEN "rawpi0" ELSE "ValueError"
           /\ tuning' = IF BadPValues(pvalues) THEN tuning
                        ELSE Normalise(tuningArg)
    /\ UNCHANGED <<inputs, pi0arr, pboot, mse, pi0, ranks, qvalues, ordering, i>>

(***************************************************************************)
(* The pi0 estimate, lines 75-93.                                          *)
(***************************************************************************)
\* TailEstimate without the division by 1 - lam
TailProportion(n, cnt, lam) == Rat(cnt, n)

\* (x >= lam).mean() / (1 - lam) over the array x, one entry of line 75
TailEstimate(n, cnt, lam) ==
    FDiv(Rat(cnt, n), FSub(One, lam))

CountGe(p, lam) == Cardinality({k \in DOMAIN p : FGe(p[k], lam)})

\* line 75
RawPi0(p, t) ==
    [k \in DOMAIN t |-> TailEstimate(Len(p), CountGe(p, t[k]), t[k])]

ComputeRaw ==
    /\ pc = "rawpi0"
    /\ pi0arr' = RawPi0(pvalues, tuning)
    /\ pc' = "estimate"
    /\ UNCHANGED <<inputs, msg, tuning, pboot, mse, pi0, ranks, qvalues, ordering, i>>

\* line 76 false: the array of one raw estimate goes on as it is
Direct ==
    /\ pc = "estimate"
    /\ ~(Len(tuning) > 1)
    /\ pi0' = pi0arr[1]
    /\ pc' = "clamp"
    /\ UNCHANGED <<inputs, msg, tuning, pi0arr, pboot, mse, ranks, qvalues, ordering, i>>

\* Values the fitted spline may take at tuning.max(): scipy's splrep/splev,
\* lines 80-81, are outside the repository; a smoothing spline through finite
\* data may evaluate to any real number.
SplineValues == {Rat(-1, 2), Zero, Rat(1, 2), One, Rat(3, 2)}

\* np.log of a raw estimate of 0 is -inf (line 79); splrep does not reject
\* non-finite data and its result is then not a number
LogIsInfinite(raw) == \E k \in DOMAIN raw : raw[k] = Zero

\* lines 77-83: what pi0 can be after the smoother branch. On the log scale the
\* result is np.exp of the spline's value: positive for a real value, 0 for
\* -inf, NaN for NaN.
SmootherResults(raw, log) ==
    IF log
    THEN {v \in SplineValues : FGt(v, Zero)}
         \cup (IF LogIsInfinite(raw) THEN {Zero, NaN} ELSE {})
    ELSE SplineValues

\* splrep(tuning, pi0, k=smoothdf), line 80, raises a TypeError unless
\* 1 <= k <= 5 and there are more than k points
SplineRefuses(m, k) == ~(1 <= k /\ k <= 5) \/ m <= k

\* lines 77-83. splrep may raise for other data it refuses (x not increasing);
\* the model leaves open when
Smoother ==
    /\ pc = "estimate"
    /\ Len(tuning) > 1
    /\ pi0method = "smoother"
    /\ \/ /\ ~SplineRefuses(Len(tuning), smoothdf)
          /\ \E v \in SmootherResults(pi0arr, smoothlog) :
                /\ pi0' = v
                /\ pc' = "clamp"
       \/ /\ pc' = "SplineError"
          /\ pi0' = pi0
    /\ UNCHANGED <<inputs, msg, tuning, pi0arr, pboot, mse, ranks, qvalues, ordering, i>>

\* One column of np.random.choice(pvalues, (pvalues.size, 100)), line 85: a
\* resample of size n with replacement, given by how often it draws each index
Resamples(n) ==
    {c \in [1..n -> 0..n] : SumInts(c, 1..n) = n}

\* the number of entries >= lam of the resample c of p
BootCountGe(p, c, lam) ==
    SumInts([k \in DOMAIN p |-> IF FGe(p[k], lam) THEN c[k] ELSE 0], DOMAIN p)

\* one entry of pi0boot, lines 86-87: the estimate at lam from the resample c
BootEstimate(p, c, lam) ==
    TailEstimate(Len(p), BootCountGe(p, c, lam), lam)

\* MseTarget as the original curve itself
MseTargetCurve(raw, k) == raw[k]

\* the value every resampled estimate is compared with, line 88: pi0.min()
MseTarget(raw, k) == NpMin(raw)

SqErr(x, y) == FMul(FSub(x, y), FSub(x, y))

RECURSIVE SumBag(_, _, _)
\* the sum of f[c] over the resamples c in S, each counted as often as it is in B
SumBag(B, f, S) ==
    IF S = {} THEN Zero
    ELSE LET c == CHOOSE y \in S : TRUE
         IN  FAdd(FMul(Rat(B[c], 1), f[c]), SumBag(B, f, S \ {c}))

\* line 88
Mse(p, t, raw, B) ==
    [k \in DOMAIN t |->
        LET target == MseTarget(raw, k)
            err == [c \in BagToSet(B) |->
                       SqErr(BootEstimate(p, c, t[k]), target)]
        IN  SumBag(B, err, BagToSet(B))]

\* line 85, one resample at a time
BootDraw ==
    /\ pc = "estimate"
    /\ Len(tuning) > 1
    /\ pi0method = "bootstrap"
    /\ BagCardinality(pboot) < NBoot
    /\ \E c \in Resamples(Len(pvalues)) : pboot' = pboot (+) SetToBag({c})
    /\ UNCHANGED <<inputs, pc, msg, tuning, pi0arr, mse, pi0, ranks, qvalues, ordering, i>>

\* lines 86-89
BootSelect ==
    /\ pc = "estimate"
    /\ Len(tuning) > 1
    /\ pi0method = "bootstrap"
    /\ BagCardinality(pboot) = NBoot
    /\ mse' = Mse(pvalues, tuning, pi0arr, pboot)
    /\ pi0' = pi0arr[NpArgMin(mse')]
    /\ pc' = "clamp"
    /\ UNCHANGED <<inputs, msg, tuning, pi0arr, pboot, ranks, qvalues, ordering, i>>

\* line 90
ClampPi0(x) == PyMin(x, One)

\* line 91
Pi0Fails(x) == FLe(x, Zero)

\* lines 90-93; pboot and mse are not read after line 89 and are dropped here
Clamp ==
    /\ pc = "clamp"
    /\ pi0' = ClampPi0(pi0)
    /\ IF Pi0Fails(pi0')
       THEN pc' = "Exception" /\ msg' = MsgPi0
       ELSE pc' = "qcalc" /\ msg' = msg
    /\ pboot' = EmptyBag
    /\ mse' = <<>>
    /\ UNCHANGED <<inputs, tuning, pi0arr, ranks, qvalues, ordering, i>>

(***************************************************************************)
(* The q-values, lines 96-114.                                             *)
(***************************************************************************)
\* line 96: ranks[j] is the number of p-values <= pvalues[j]
Ranks(p) ==
    [j \in DOMAIN p |-> Cardinality({k \in DOMAIN p : FLe(p[k], p[j])})]

\* PlainQ without the p-value
PlainQNoP(x, n, pj, rj) == FDiv(FMul(x, Rat(n, 1)), Rat(rj, 1))

\* line 101
PlainQ(x, n, pj, rj) ==
    FDiv(FMul(FMul(x, Rat(n, 1)), pj), Rat(rj, 1))

\* lines 98-99
RobustQ(x, n, pj, rj) ==
    FDiv(FMul(FMul(x, Rat(n, 1)), pj),
         FMul(Rat(rj, 1), FSub(One, FPow(FSub(One, pj), n))))

\* lines 97-101
RawQ(p, r, x, rob) ==
    [j \in DOMAIN p |->
        IF rob THEN RobustQ(x, Len(p), p[j], r[j])
        ELSE PlainQ(x, Len(p), p[j], r[j])]

QCalc ==
    /\ pc = "qcalc"
    /\ ranks' = Ranks(pvalues)
    /\ qvalues' = RawQ(pvalues, ranks', pi0, robust)
    /\ pc' = "sort"
    /\ UNCHANGED <<inputs, msg, tuning, pi0arr, pboot, mse, pi0, ordering, i>>

\* line 102: the orders pvalues.argsort() may return; the default sort is not
\* stable, so tied p-values come in any order
ArgSorts(p) ==
    {o \in [DOMAIN p -> DOMAIN p] :
        /\ \A a, b \in DOMAIN p : a # b => o[a] # o[b]
        /\ \A a, b \in DOMAIN p : a < b => FLe(p[o[a]], p[o[b]])}

\* lines 104-107
CapLast(q) == PyMin(q, One)

\* MonoMin without the q-value of the next larger p-value
MonoMinOwn(own, next) == NpMin(<<own, One>>)

\* lines 109-112: np.min of the three values, NaN if one of them is NaN
MonoMin(own, next) == NpMin(<<own, next, One>>)

\* lines 102-107; i is the loop index of line 108, counted from 1
Sort ==
    /\ pc = "sort"
    /\ \E o \in ArgSorts(pvalues) :
          /\ ordering' = o
          /\ qvalues' = [qvalues EXCEPT ![o[Len(pvalues)]] = CapLast(@)]
    /\ i' = Len(pvalues) - 1
    /\ pc' = "mono"
    /\ UNCHANGED <<inputs, msg, tuning, pi0arr, pboot, mse, pi0, ranks>>

\* one turn of the loop of lines 108-112
MonoStep ==
    /\ pc = "mono"
    /\ i >= 1
    /\ qvalues' = [qvalues EXCEPT
                      ![ordering[i]] = MonoMin(@, qvalues[ordering[i + 1]])]
    /\ i' = i - 1
    /\ UNCHANGED <<inputs, pc, msg, tuning, pi0arr, pboot, mse, pi0, ranks, ordering>>

\* line 114
Return ==
    /\ pc = "mono"
    /\ i = 0
    /\ pc' = "returned"
    /\ UNCHANGED <<inputs, msg, tuning, pi0arr, pboot, mse, pi0, ranks, qvalues, ordering, i>>

(***************************************************************************)
(* Specifications.                                                         *)
(***************************************************************************)
Locals ==
    /\ pc = "start"
    /\ msg = NoError
    /\ tuning = <<>>
    /\ pi0arr = <<>>
    /\ pboot = EmptyBag
    /\ mse = <<>>
    /\ pi0 = Zero
    /\ ranks = <<>>
    /\ qvalues = <<>>
    /\ ordering = <<>>
    /\ i = 0

\* p-values and tuning values inside their intervals
PVals == {Zero, Rat(1, 2), One}
TVals == {Zero, Rat(1, 2)}
\* values outside them
BadPVals == {Rat(-1, 2), Rat(3, 2), NaN}
BadTVals == {Rat(-1, 2), One}

\* smoothdf=3, line 8
DefaultDf == 3
SmoothDfs == {DefaultDf, DefaultDf + 2}

\* arrays of several tuning values: a rising grid, one with repeated values
\* out of order, one of zeros
GridTunings ==
    {<<Zero, Rat(1, 4), Rat(1, 2), Rat(3, 4)>>,
     <<Rat(1, 2), Zero, Rat(1, 2), Zero>>,
     <<Zero, Zero, Zero, Zero>>}

ValidTunings ==
    {NoTuning}
    \cup {ScalarTuning(v) : v \in TVals \cup {Rat(3, 4)}}
    \cup {ArrayTuning(<<r>>) : r \in GridTunings}

AnyTunings ==
    LET T == {Rat(1, 2)} \cup BadTVals
        R == {<<Rat(1, 2), Rat(1, 2)>>, <<Rat(1, 2), One>>,
              <<Rat(-1, 2), Rat(1, 2)>>}
    IN  {NoTuning}
        \cup {ScalarTuning(v) : v \in T}
        \cup {ArrayTuning(<<r>>) : r \in SeqsOf(T, 0, MinMulti)}
        \cup {ArrayTuning(<<r1, r2>>) : r1 \in R, r2 \in R}

\* calls with valid arguments; the bootstrap branch is run on short inputs
\* only, and with smoothlog (which it never reads) left at its default
Init ==
    /\ pvalues \in SeqsOf(PVals, 1, MaxN)
    /\ tuningArg \in ValidTunings
    /\ pi0method \in Pi0Methods
    /\ robust \in BOOLEAN
    /\ smoothdf \in SmoothDfs
    /\ smoothlog \in BOOLEAN
    /\ (pi0method = "bootstrap" /\ Len(Normalise(tuningArg)) > 1)
          => (Len(pvalues) <= MaxNB /\ ~smoothlog)
    /\ Locals

\* calls with valid arguments on which the bootstrap is run in full; robust,
\* smoothdf and smoothlog are left at their defaults
InitBoot ==
    /\ pvalues \in SeqsOf(PVals, 1, MaxNBoot)
    /\ tuningArg \in ValidTunings
    /\ pi0method \in Pi0Methods
    /\ robust = FALSE
    /\ smoothdf = DefaultDf
    /\ smoothlog = FALSE
    /\ Locals

\* calls with any arguments: p-values and tuning values in and out of range,
\* tuning arrays of every size up to MinMulti, an unknown method
InitAny ==
    /\ pvalues \in SeqsOf({Zero, One} \cup BadPVals, 1, MaxNAny)
    /\ tuningArg \in AnyTunings
    /\ pi0method \in Pi0Methods \cup {"other"}
    /\ robust \in BOOLEAN
    /\ smoothdf = DefaultDf
    /\ smoothlog = FALSE
    /\ Locals

Next ==
    \/ Validate
    \/ ComputeRaw
    \/ Direct
    \/ Smoother
    \/ BootDraw
    \/ BootSelect
    \/ Clamp
    \/ QCalc
    \/ Sort
    \/ MonoStep
    \/ Return

Spec == Init /\ [][Next]_vars

SpecAny == InitAny /\ [][Next]_vars

SpecBoot == InitBoot /\ [][Next]_vars

(***************************************************************************)
(* Properties.                                                             *)
(***************************************************************************)
N == Len(pvalues)
Returned == pc = "returned"
Several == Len(Normalise(tuningArg)) > 1
InUnit(x) == FLe(Zero, x) /\ FLe(x, One)
Pi0Valid == FGt(pi0, Zero) /\ FLe(pi0, One)
QBounded == \A j \in DOMAIN qvalues : InUnit(qvalues[j])
QMonotone ==
    \A a, b \in DOMAIN pvalues :
        FLe(pvalues[a], pvalues[b]) => FLe(qvalues[a], qvalues[b])

\* C1: the returned q-values are monotone in the p-values: whenever
\* pvalues[a] <= pvalues[b], qvalues[a] <= qvalues[b]. Stated for the calls
\* that return with pi0 in (0,1], so that a violation is the q-value pass's own.
C1_Monotone == (Returned /\ Pi0Valid) => QMonotone

\* C2: every returned q-value is a number in [0,1], robust or not, p-values
\* of 0 and 1 included. Stated for the calls that return with pi0 in (0,1].
C2_QInUnit == (Returned /\ Pi0Valid) => QBounded

\* C3: qvalue goes past the check of line 91 only with pi0 in (0,1], and ends
\* in the estimation failure only with pi0 <= 0; every returned pi0 is in (0,1].
C3_Pi0Checked ==
    /\ pc \in {"qcalc", "sort", "mono", "returned"} => Pi0Valid
    /\ pc = "Exception" => FLe(pi0, Zero)

\* the arguments a call must refuse
PValueOutside == \E k \in DOMAIN pvalues :
                    IsNaN(pvalues[k]) \/ FLt(pvalues[k], Zero) \/ FGt(pvalues[k], One)
TuningSize == IF tuningArg.kind = "none" THEN LinspaceNum
              ELSE Len(Flatten(tuningArg.rows))
TuningCountInvalid == TuningSize = 0 \/ TuningSize = 2 \/ TuningSize = 3
TuningOutside ==
    \E r \in DOMAIN tuningArg.rows : \E k \in DOMAIN tuningArg.rows[r] :
        ~(FLe(Zero, tuningArg.rows[r][k]) /\ FLt(tuningArg.rows[r][k], One))
MethodUnknown == pi0method # "smoother" /\ pi0method # "bootstrap"
InvalidCall ==
    PValueOutside \/ TuningCountInvalid \/ TuningOutside \/ MethodUnknown
ValidationMessages ==
    {MsgPValues, MsgCount, MsgTuning1, MsgTunings, MsgMethod}

C6_Rank(j) == Cardinality({k \in DOMAIN pvalues : FLe(pvalues[k], pvalues[j])})
C6_Raw(j) == FDiv(FMul(FMul(pi0, Rat(N, 1)), pvalues[j]), Rat(C6_Rank(j), 1))
C6_Expected(a) ==
    NpMin([k \in 1..(N + 1) |->
              IF k = N + 1 THEN One
              ELSE IF FGe(pvalues[k], pvalues[a]) THEN C6_Raw(k) ELSE One])

\* C6: with robust off, the result has the length and the order of the input
\* and qvalues[a] = min(1, min over p[j] >= p[a] of pi0 * n * p[j] / rank[j]),
\* whatever order the sort gave to ties.
C6_QFormula ==
    (Returned /\ ~robust) =>
        /\ DOMAIN qvalues = DOMAIN pvalues
        /\ \A a \in DOMAIN pvalues : qvalues[a] = C6_Expected(a)

\* the backward pass lowered a q-value below its own pi0 * n * p / rank, with
\* tied p-values taken out of input order
C6_Witness ==
    /\ Returned
    /\ ~robust
    /\ \E a \in DOMAIN pvalues :
          FLt(qvalues[a], C6_Raw(a)) /\ FLt(qvalues[a], One)
    /\ \E a, b \in DOMAIN pvalues :
          a < b /\ pvalues[ordering[a]] = pvalues[ordering[b]]
                /\ ordering[a] > ordering[b]

C8_Lambda == Normalise(tuningArg)[1]
C8_Count == Cardinality({k \in DOMAIN pvalues : ~FLt(pvalues[k], C8_Lambda)})
C8_Direct ==
    LET est == Rat(C8_Count * C8_Lambda.d, N * (C8_Lambda.d - C8_Lambda.n))
    IN  IF FLt(One, est) THEN One ELSE est

\* C8: with one tuning value, pi0 after line 90 is
\* min(1, (count of p-values >= lam) / n / (1 - lam)) whatever pi0method,
\* smoothdf and smoothlog are, the spline and the bootstrap are never run, and
\* the call ends in the estimation failure exactly when no p-value is >= lam.
C8_DirectEstimate ==
    TuningSize = 1 =>
        /\ pc \in {"qcalc", "sort", "mono", "returned", "Exception"}
              => pi0 = C8_Direct
        /\ pc \in {"qcalc", "sort", "mono", "returned"} => C8_Count > 0
        /\ pc = "Exception" => C8_Count = 0
        /\ pc # "SplineError" /\ pboot = EmptyBag

\* one tuning value, the other method, smoothlog on, a degree splrep would
\* refuse: the direct estimate 2/3 is returned
C8_Witness ==
    /\ Returned
    /\ TuningSize = 1
    /\ pi0method = "bootstrap"
    /\ smoothlog
    /\ smoothdf # DefaultDf
    /\ FLt(pi0, One)

\* C9: with all p-values 0, the bootstrap and several tuning values, the call
\* ends either in the estimation failure or with a valid pair: pi0 in (0,1],
\* q-values in [0,1] and monotone.
C9_Degenerate ==
    ((\A k \in DOMAIN pvalues : pvalues[k] = Zero)
        /\ pi0method = "bootstrap" /\ Several) =>
        /\ pc \notin {"ValueError", "SplineError"}
        /\ Returned => (Pi0Valid /\ QBounded /\ QMonotone)

\* the sum over the resamples drawn of the squared distance, at tuning index
\* k, between the resampled estimate and the target
C10_Raw == RawPi0(pvalues, tuning)
C10_Score(k, target) ==
    LET d == [c \in BagToSet(pboot) |->
                 LET x == FSub(BootEstimate(pvalues, c, tuning[k]), target)
                 IN  FMul(x, x)]
    IN  SumBag(pboot, d, BagToSet(pboot))
\* the first index of the least entry of the scores sc
C10_First(sc) ==
    CHOOSE k \in DOMAIN sc :
        /\ \A j \in DOMAIN sc : FLe(sc[k], sc[j])
        /\ \A j \in DOMAIN sc : j < k => FLt(sc[k], sc[j])
\* the index chosen when every resampled estimate is compared with the
\* minimum of the original curve
C10_Best ==
    LET m == NpMin(C10_Raw)
    IN  C10_First([k \in DOMAIN tuning |-> C10_Score(k, m)])
\* the index that comparing with the original curve itself would choose
C10_BestByCurve ==
    C10_First([k \in DOMAIN tuning |-> C10_Score(k, C10_Raw[k])])
BootChosen ==
    pc = "clamp" /\ pi0method = "bootstrap" /\ Len(tuning) > 1

\* C10: the bootstrap's pi0, before clamping, is the original raw estimate at
\* the first tuning index that minimises the sum over the resamples of
\* (resampled estimate - minimum of the original curve)^2.
C10_BootstrapChoice ==
    BootChosen =>
        /\ \E k \in DOMAIN tuning : pi0 = C10_Raw[k]
        /\ pi0 = C10_Raw[C10_Best]

\* resamples for which comparing with the original curve itself would have
\* chosen another estimate
C10_Witness ==
    /\ BootChosen
    /\ BagCardinality(pboot) = NBoot
    /\ C10_Raw[C10_BestByCurve] # pi0

====
